---- MODULE Spec2Model ----
(***************************************************************************)
(* Model of zLimit (src/index.js): a registry of two maps keyed by name,   *)
(* timeouts (last timestamp per name) and remainingCalls (remaining quota  *)
(* per name), with the operations once, throttle, limit and clear.         *)
(*                                                                         *)
(* Spec covers the documented inputs: names are strings, the action is a   *)
(* function that returns normally (it may take time), interval and limit   *)
(* are non-negative integers.  Every operation is one atomic step, as the  *)
(* code is synchronous.                                                    *)
(***************************************************************************)
EXTENDS Integers, FiniteSets, Sequences, TLC

\* ---- bounds of the model ----
MaxTime == 2         \* largest clock value (Date.now()) explored
MaxDur == 1          \* longest time an action takes to return
MaxInterval == 1     \* largest interval passed to throttle
MaxCalls == 3        \* largest limit passed to limit
ExtraCalls == 2      \* limit/once calls explored on a name beyond its seeded quota
ThrottleEnd == 12    \* largest clock value explored by SpecThrottle
ThrottleInterval == 5  \* largest interval explored by SpecThrottle

Names == {"a", "b"}

\* the limit that once passes to limit (src/index.js:35)
OnceLimit == 1

VARIABLES
  timeouts,        \* var timeouts = {}        name -> timestamp
  remainingCalls,  \* var remainingCalls = {}  name -> remaining calls
  now,             \* latest value read from Date.now()
  last,            \* the call made by the latest step: op, name, whether func was
                   \* called and the value returned (throttle: also interval and
                   \* the clock value at the call)
  seed,            \* history: limit argument that seeded the name's quota
  calls,           \* history: limit/once calls on the name since it was unseen
  hist             \* history: "never" used, "cleared" last, or "active"

vars == <<timeouts, remainingCalls, now, last, seed, calls, hist>>

\* ---- JavaScript objects used as maps ----
EmptyMap == [x \in {} |-> 0]

\* `name in m`
Has(m, name) == name \in DOMAIN m

\* `m[name] = v`
Put(m, name, v) == [x \in (DOMAIN m) \cup {name} |-> IF x = name THEN v ELSE m[x]]

DeleteKeep(m, name) == m

DeleteAll(m, name) == EmptyMap

\* `delete m[name]`
Delete(m, name) == [x \in (DOMAIN m) \ {name} |-> m[x]]

\* ---- limit (src/index.js:84-95) ----
seedQuotaAlways(rc, name, limit) == Put(rc, name, limit)

\* if (!(name in remainingCalls)) remainingCalls[name] = limit
seedQuota(rc, name, limit) == IF ~Has(rc, name) THEN Put(rc, name, limit) ELSE rc

hasQuotaGE(rc, name) == Has(rc, name) /\ rc[name] >= 0

hasQuotaIfStamped(rc, name) == Has(timeouts, name) /\ Has(rc, name) /\ rc[name] > 0

\* name in remainingCalls && remainingCalls[name] > 0
hasQuota(rc, name) == Has(rc, name) /\ rc[name] > 0

\* remainingCalls[name]--
decrement(rc, name) == Put(rc, name, rc[name] - 1)

limitReturnTrue(called) == "true"

\* return true after func(), return false in the else branch
limitReturn(called) == IF called THEN "true" ELSE "false"

\* the body of limit, entered as `op` ("limit", or "once" through once)
limitBody(op, name, limit) ==
  LET rc1 == seedQuota(remainingCalls, name, limit)
      called == hasQuota(rc1, name)
  IN /\ seed' = IF Has(remainingCalls, name) THEN seed ELSE [seed EXCEPT ![name] = limit]
     /\ calls[name] < seed'[name] + ExtraCalls
     /\ remainingCalls' = IF called THEN decrement(rc1, name) ELSE rc1
     /\ last' = [op |-> op, name |-> name, called |-> called, ret |-> limitReturn(called)]
     /\ calls' = [calls EXCEPT ![name] = @ + 1]
     /\ hist' = [hist EXCEPT ![name] = "active"]
     /\ UNCHANGED <<timeouts, now>>

limit(name, lim) == limitBody("limit", name, lim)

\* ---- once (src/index.js:34-36) ----
onceLimitTwo(name) == limitBody("once", name, 2)

once(name) == limitBody("once", name, OnceLimit)

\* ---- throttle (src/index.js:55-65) ----
elapsedGT(ts, name, t, interval) == t > ts[name] + interval

\* Date.now() >= (timeouts[name] + interval)
elapsed(ts, name, t, interval) == t >= ts[name] + interval

throttleReturnCalled(first, called) == IF called THEN "true" ELSE "false"

\* return false (first call), return true (repeat), no return statement (suppressed)
throttleReturn(first, called) ==
  IF first THEN "false" ELSE IF called THEN "true" ELSE "undefined"

stampEveryCall(ts, name, first, called, t, t2) == Put(ts, name, IF first THEN t ELSE t2)

\* timeouts[name] = Date.now() before func() on the first call (line 57), after
\* func() on a permitted repeat call (line 62), no assignment when suppressed;
\* t and t2 are the two values read from the clock
stamp(ts, name, first, called, t, t2) ==
  IF first THEN Put(ts, name, t)
  ELSE IF called THEN Put(ts, name, t2)
  ELSE ts

\* t is the value of Date.now() when the call is made, d the time the action
\* takes, so that Date.now() reads t + d on line 62
throttleBody(name, interval, t, d) ==
  LET first == ~Has(timeouts, name)
      called == first \/ elapsed(timeouts, name, t, interval)
  IN /\ t >= now
     /\ timeouts' = stamp(timeouts, name, first, called, t, t + d)
     /\ now' = IF called THEN t + d ELSE t
     /\ last' = [op |-> "throttle", name |-> name, interval |-> interval, at |-> t,
                 called |-> called, ret |-> throttleReturn(first, called)]
     /\ hist' = [hist EXCEPT ![name] = "active"]
     /\ UNCHANGED <<remainingCalls, seed, calls>>

throttle(name, interval, t, d) ==
  /\ t + d <= MaxTime
  /\ throttleBody(name, interval, t, d)

\* ---- clear (src/index.js:118-129) ----
clearResetTimeoutsOnly(ts, rc, name) == Has(ts, name)

\* reset is set to true when either map holds the name
clearReset(ts, rc, name) == Has(ts, name) \/ Has(rc, name)

clear(name) ==
  /\ timeouts' = IF Has(timeouts, name) THEN Delete(timeouts, name) ELSE timeouts
  /\ remainingCalls' = IF Has(remainingCalls, name) THEN Delete(remainingCalls, name)
                       ELSE remainingCalls
  /\ last' = [op |-> "clear", name |-> name, called |-> FALSE,
              ret |-> IF clearReset(timeouts, remainingCalls, name) THEN "true" ELSE "false"]
  /\ seed' = [seed EXCEPT ![name] = 0]
  /\ calls' = [calls EXCEPT ![name] = 0]
  /\ hist' = [hist EXCEPT ![name] = "cleared"]
  /\ UNCHANGED now

\* ---- the registry after `new ZLimit()` (src/index.js:17-20, 131) ----
Init ==
  /\ timeouts = EmptyMap
  /\ remainingCalls = EmptyMap
  /\ now = 0
  /\ last = [op |-> "none", name |-> "", called |-> FALSE, ret |-> "undefined"]
  /\ seed = [n \in Names |-> 0]
  /\ calls = [n \in Names |-> 0]
  /\ hist = [n \in Names |-> "never"]

Next ==
  \/ \E name \in Names : once(name)
  \/ \E name \in Names, interval \in 0..MaxInterval, t \in now..MaxTime, d \in 0..MaxDur :
       throttle(name, interval, t, d)
  \/ \E name \in Names, lim \in 0..MaxCalls : limit(name, lim)
  \/ \E name \in Names : clear(name)

Spec == Init /\ [][Next]_vars

TypeOK ==
  /\ DOMAIN timeouts \subseteq Names
  /\ DOMAIN remainingCalls \subseteq Names
  /\ now \in 0..MaxTime

\* ---- throttle alone on one name, over a longer stretch of time ----
ThrottleNames == {"a"}

NextThrottle ==
  \/ \E name \in ThrottleNames, interval \in 0..ThrottleInterval,
        t \in now..ThrottleEnd, d \in 0..MaxDur :
       /\ t + d <= ThrottleEnd
       /\ throttleBody(name, interval, t, d)
  \/ \E name \in ThrottleNames : clear(name)

SpecThrottle == Init /\ [][NextThrottle]_vars

\* ---- inputs outside the documented ones: an action that throws, an action
\* ---- that is not callable, a negative limit or interval ----
Failures == {"throws", "notCallable"}

\* what the caller sees when func() does not return (lines 58, 61, 89)
failure(fn) == IF fn = "throws" THEN "Error" ELSE "TypeError"

\* limit when func() on line 89 does not return: line 90 is not reached
limitFails(op, name, lim, fn) ==
  LET rc1 == seedQuota(remainingCalls, name, lim)
  IN /\ hasQuota(rc1, name)
     /\ seed' = IF Has(remainingCalls, name) THEN seed ELSE [seed EXCEPT ![name] = lim]
     /\ calls[name] < seed'[name] + ExtraCalls
     /\ remainingCalls' = rc1
     /\ last' = [op |-> op, name |-> name, called |-> (fn = "throws"), ret |-> failure(fn)]
     /\ calls' = [calls EXCEPT ![name] = @ + 1]
     /\ hist' = [hist EXCEPT ![name] = "active"]
     /\ UNCHANGED <<timeouts, now>>

\* throttle when func() on line 58 or 61 does not return: line 57 has run on
\* the first call, line 62 is not reached on a repeat call
throttleFails(name, interval, t, d, fn) ==
  LET first == ~Has(timeouts, name)
  IN /\ IF first THEN TRUE ELSE elapsed(timeouts, name, t, interval)
     /\ t >= now
     /\ t + d <= MaxTime
     /\ timeouts' = IF first THEN Put(timeouts, name, t) ELSE timeouts
     /\ now' = t + d
     /\ last' = [op |-> "throttle", name |-> name, interval |-> interval, at |-> t,
                 called |-> (fn = "throws"), ret |-> failure(fn)]
     /\ hist' = [hist EXCEPT ![name] = "active"]
     /\ UNCHANGED <<remainingCalls, seed, calls>>

LooseNames == {"a"}

NextLoose ==
  \/ \E name \in LooseNames, lim \in -1..MaxCalls : limit(name, lim)
  \/ \E name \in LooseNames : once(name)
  \/ \E name \in LooseNames, interval \in -1..MaxInterval, t \in now..MaxTime,
        d \in 0..MaxDur :
       throttle(name, interval, t, d)
  \/ \E name \in LooseNames : clear(name)
  \/ \E name \in LooseNames, lim \in 1..MaxCalls, fn \in Failures :
       limitFails("limit", name, lim, fn)
  \/ \E name \in LooseNames, fn \in Failures : limitFails("once", name, OnceLimit, fn)
  \/ \E name \in LooseNames, interval \in 0..MaxInterval, t \in now..MaxTime,
        d \in 0..MaxDur, fn \in Failures :
       throttleFails(name, interval, t, d, fn)

SpecLoose == Init /\ [][NextLoose]_vars

\* ---- actions that call back into the registry on their own name ----
\* the value `undefined--` stores on line 90: it is not > 0 and stays NaN
NaN == -1000

\* limit whose func calls limit or once on the same name and then returns: the
\* inner call runs lines 85-94 before the outer call reaches line 90
limitReentrant(op, name, lim, innerLimit, innerOp) ==
  LET rc1 == seedQuota(remainingCalls, name, lim)
      rc2 == seedQuota(rc1, name, innerLimit)
      innerCalled == hasQuota(rc2, name)
      rc3 == IF innerCalled THEN decrement(rc2, name) ELSE rc2
  IN /\ hasQuota(rc1, name)
     /\ seed' = IF Has(remainingCalls, name) THEN seed ELSE [seed EXCEPT ![name] = lim]
     /\ calls[name] + 1 < seed'[name] + ExtraCalls
     /\ remainingCalls' = decrement(rc3, name)
     /\ last' = [op |-> op, name |-> name, called |-> TRUE, ret |-> limitReturn(TRUE),
                 inner |-> innerOp, execs |-> IF innerCalled THEN 2 ELSE 1]
     /\ calls' = [calls EXCEPT ![name] = @ + 2]
     /\ hist' = [hist EXCEPT ![name] = "active"]
     /\ UNCHANGED <<timeouts, now>>

\* limit whose func calls clear(name) and then returns: line 90 decrements an
\* entry that is no longer there
limitClears(op, name, lim) ==
  LET rc1 == seedQuota(remainingCalls, name, lim)
  IN /\ hasQuota(rc1, name)
     /\ timeouts' = IF Has(timeouts, name) THEN Delete(timeouts, name) ELSE timeouts
     /\ remainingCalls' = Put(Delete(rc1, name), name, NaN)
     /\ last' = [op |-> op, name |-> name, called |-> TRUE, ret |-> limitReturn(TRUE),
                 inner |-> "clear", execs |-> 1]
     /\ seed' = [seed EXCEPT ![name] = 0]
     /\ calls' = [calls EXCEPT ![name] = 0]
     /\ hist' = [hist EXCEPT ![name] = "active"]
     /\ UNCHANGED now

\* throttle whose func calls clear(name) and then returns: on a repeat call
\* line 62 stores the timestamp again after the clear
throttleClears(name, interval, t, d) ==
  LET first == ~Has(timeouts, name)
      ts1 == IF first THEN Put(timeouts, name, t) ELSE timeouts
  IN /\ IF first THEN TRUE ELSE elapsed(timeouts, name, t, interval)
     /\ t >= now
     /\ t + d <= MaxTime
     /\ timeouts' = IF first THEN Delete(ts1, name)
                    ELSE Put(Delete(ts1, name), name, t + d)
     /\ remainingCalls' = IF Has(remainingCalls, name) THEN Delete(remainingCalls, name)
                          ELSE remainingCalls
     /\ now' = t + d
     /\ last' = [op |-> "throttle", name |-> name, interval |-> interval, at |-> t,
                 called |-> TRUE, ret |-> throttleReturn(first, TRUE),
                 inner |-> "clear", execs |-> 1]
     /\ seed' = [seed EXCEPT ![name] = 0]
     /\ calls' = [calls EXCEPT ![name] = 0]
     /\ hist' = [hist EXCEPT ![name] = "active"]

NextReentrant ==
  \/ Next
  \/ \E name \in Names, lim \in 1..MaxCalls, innerLim \in 0..MaxCalls :
       limitReentrant("limit", name, lim, innerLim, "limit")
  \/ \E name \in Names, lim \in 1..MaxCalls :
       limitReentrant("limit", name, lim, OnceLimit, "once")
  \/ \E name \in Names : limitReentrant("once", name, OnceLimit, OnceLimit, "once")
  \/ \E name \in Names, lim \in 1..MaxCalls : limitClears("limit", name, lim)
  \/ \E name \in Names : limitClears("once", name, OnceLimit)
  \/ \E name \in Names, interval \in 0..MaxInterval, t \in now..MaxTime, d \in 0..MaxDur :
       throttleClears(name, interval, t, d)

SpecReentrant == Init /\ [][NextReentrant]_vars

\* ---- properties ----

QuotaOps == {"limit", "once"}

C3_ThrottleIffElapsedSinceLastPermitted ==
  [][\A name \in Names :
       (last'.op = "throttle" /\ last'.name = name) =>
         /\ name \notin DOMAIN timeouts => last'.called
         /\ (last.op = "throttle" /\ last.name = name /\ last.called)
              => (last'.called <=> last'.at - last.at >= last'.interval)]_vars

C5_ThrottleReturnsWhetherCalled ==
  last.op = "throttle" => last.ret = (IF last.called THEN "true" ELSE "false")

\* C6: limit and once return true iff func was called, false otherwise, and a
\* call on a name whose quota is exhausted returns false without calling func.
C6_LimitReturnsWhetherCalled ==
  [][\A name \in Names :
       (last'.op \in QuotaOps /\ last'.name = name) =>
         /\ last'.ret \in {"true", "false"}
         /\ last'.ret = "true" <=> last'.called
         /\ (name \in DOMAIN remainingCalls /\ remainingCalls[name] = 0)
              => (~last'.called /\ last'.ret = "false")]_vars

\* limit on an exhausted name returned false
C6_Witness ==
  /\ last.op = "limit"
  /\ last.ret = "false"
  /\ ~last.called
  /\ seed[last.name] = 2
  /\ calls[last.name] = 3

C10_LimitZeroNeverExecutes ==
  [][\A name \in Names :
       limit(name, 0) => (~last'.called /\ last'.ret = "false")]_vars

\* C10 (amended): limit(name, action, 0) calls func iff the name already has a
\* remaining count > 0; on a name without quota entry it seeds 0, does not call
\* func and returns false, and no limit/once call on a name seeded with 0
\* calls func.
C10_LimitZeroSeedsNothing ==
  [][\A name \in Names :
       /\ limit(name, 0) =>
            /\ last'.called <=>
                 (name \in DOMAIN remainingCalls /\ remainingCalls[name] > 0)
            /\ name \notin DOMAIN remainingCalls =>
                 (~last'.called /\ last'.ret = "false" /\ remainingCalls'[name] = 0)
       /\ (last'.op \in QuotaOps /\ last'.name = name /\ seed'[name] = 0)
            => (~last'.called /\ last'.ret = "false")]_vars

\* a name seeded with 0 was called twice and func never ran
C10_Witness ==
  /\ last.op = "limit"
  /\ seed[last.name] = 0
  /\ calls[last.name] = 2
  /\ ~last.called
  /\ last.ret = "false"
  /\ remainingCalls[last.name] = 0

\* C13: time is read once per throttle call, so the timestamp stored by a
\* permitted call is the clock value the call was decided at.
C13_StoredTimeIsDecisionTime ==
  (last.op = "throttle" /\ last.called) => timeouts[last.name] = last.at

C15_ThrottleAndQuotaIndependent ==
  [][\A name \in Names :
       /\ (last'.op = "throttle" /\ last'.name = name) =>
            /\ remainingCalls' = remainingCalls
            /\ last'.called <=>
                 (name \notin DOMAIN timeouts \/ last'.at >= timeouts[name] + last'.interval)
       /\ (last'.op \in QuotaOps /\ last'.name = name) =>
            /\ timeouts' = timeouts
            /\ last'.called <=>
                 (IF name \in DOMAIN remainingCalls THEN remainingCalls[name] > 0
                  ELSE seed'[name] > 0)]_vars

\* limit ran func on a name that throttle has stamped and would suppress
C15_Witness ==
  /\ last.op = "limit"
  /\ last.called
  /\ last.name \in DOMAIN timeouts
  /\ timeouts[last.name] = now
  /\ remainingCalls[last.name] = 1

\* C16: once(name, action) is limit(name, action, 1): from any state both
\* call func iff the quota entry (1 when the name has none) is > 0, return
\* that as "true"/"false", leave the entry decremented if func ran and
\* seeded otherwise, and change nothing else; a name seeded by limit with a
\* larger limit is consumed by once.
C16_OnceIsLimitOne ==
  [][\A name \in Names :
       (once(name) \/ limit(name, 1)) =>
         LET quota == IF name \in DOMAIN remainingCalls THEN remainingCalls[name] ELSE 1
         IN /\ last'.called <=> quota > 0
            /\ last'.ret = (IF quota > 0 THEN "true" ELSE "false")
            /\ remainingCalls'[name] = (IF quota > 0 THEN quota - 1 ELSE quota)
            /\ \A other \in Names \ {name} :
                 /\ other \in DOMAIN remainingCalls' <=> other \in DOMAIN remainingCalls
                 /\ other \in DOMAIN remainingCalls =>
                      remainingCalls'[other] = remainingCalls[other]
            /\ timeouts' = timeouts]_vars

\* once consumed a call of a quota that limit seeded with 3
C16_Witness ==
  /\ last.op = "once"
  /\ last.called
  /\ seed[last.name] = 3
  /\ calls[last.name] = 2
  /\ remainingCalls[last.name] = 1

\* C19: an operation on one name leaves the timestamp entry and the quota
\* entry of every other name as they were.
C19_OtherNamesUntouched ==
  [][\A name \in Names, other \in Names :
       (last'.name = name /\ other # name) =>
         /\ other \in DOMAIN timeouts' <=> other \in DOMAIN timeouts
         /\ other \in DOMAIN timeouts => timeouts'[other] = timeouts[other]
         /\ other \in DOMAIN remainingCalls' <=> other \in DOMAIN remainingCalls
         /\ other \in DOMAIN remainingCalls =>
              remainingCalls'[other] = remainingCalls[other]]_vars

\* clear of one name has left both entries of the other name in place
C19_Witness ==
  /\ last.op = "clear"
  /\ last.ret = "true"
  /\ \E other \in Names \ {last.name} :
       /\ other \in DOMAIN timeouts
       /\ other \in DOMAIN remainingCalls
       /\ remainingCalls[other] = 2

\* C20: throttle called again and again with a fixed interval does not starve
\* the name: after a permitted call made at time t0, the first call made at a
\* time >= t0 + interval is permitted.
C20_FirstCallAfterIntervalPermitted ==
  [][\A name \in Names :
       (/\ last.op = "throttle" /\ last.name = name /\ last.called
        /\ last'.op = "throttle" /\ last'.name = name
        /\ last'.interval = last.interval
        /\ last'.at >= last.at + last'.interval)
         => last'.called]_vars

Errors == {"Error", "TypeError"}

\* C11: a call with an invalid argument (a negative limit or interval, an
\* action that is not callable) fails with an error and leaves the timestamp
\* map and the quota map as they were.
C11_InvalidInputNoMutation ==
  [][\A name \in Names :
       /\ limit(name, -1) =>
            (last'.ret \in Errors /\ timeouts' = timeouts /\ remainingCalls' = remainingCalls)
       /\ (last'.op = "throttle" /\ last'.name = name /\ last'.interval < 0) =>
            (last'.ret \in Errors /\ timeouts' = timeouts /\ remainingCalls' = remainingCalls)
       /\ (last'.name = name /\ last'.ret = "TypeError") =>
            (timeouts' = timeouts /\ remainingCalls' = remainingCalls)]_vars

\* C12: when the action throws, the quota entry and the timestamp entry of
\* the name are the same as before the call.
C12_ThrowLeavesEntries ==
  [][\A name \in Names :
       (last'.name = name /\ last'.ret = "Error") =>
         /\ name \in DOMAIN timeouts' <=> name \in DOMAIN timeouts
         /\ name \in DOMAIN timeouts => timeouts'[name] = timeouts[name]
         /\ name \in DOMAIN remainingCalls' <=> name \in DOMAIN remainingCalls
         /\ name \in DOMAIN remainingCalls =>
              remainingCalls'[name] = remainingCalls[name]]_vars

\* C17: when the action of limit or once calls limit or once on its own name,
\* the actions run during the call are at most the quota the name had (the
\* seeding limit when it had none) and the quota entry does not become
\* negative.
C17_ReentrantWithinQuota ==
  [][\A name \in Names :
       (/\ last'.name = name
        /\ "inner" \in DOMAIN last'
        /\ last'.inner \in QuotaOps) =>
         LET quota == IF name \in DOMAIN remainingCalls THEN remainingCalls[name]
                      ELSE seed'[name]
         IN /\ last'.execs <= quota
            /\ remainingCalls'[name] >= 0]_vars

\* C18: when the action of limit or throttle calls clear on its own name, the
\* name is afterwards absent from a map or holds a valid entry in it, and the
\* next limit with a limit >= 1 on the name calls func.
C18_ClearInsideActionResets ==
  [][\A name \in Names :
       /\ (last'.name = name /\ "inner" \in DOMAIN last' /\ last'.inner = "clear") =>
            /\ name \in DOMAIN remainingCalls' => remainingCalls'[name] \in Nat
            /\ name \in DOMAIN timeouts' => timeouts'[name] \in Nat
       /\ (last.name = name /\ "inner" \in DOMAIN last /\ last.inner = "clear") =>
            \A m \in 1..MaxCalls : limit(name, m) => last'.called]_vars

====
